---- MODULE Spec2Model ----
(***************************************************************************)
(* JEEFS: a flat file system inside a fixed-size EEPROM image.             *)
(* The image is a byte array; the board header sits at offset 0 and the    *)
(* file records (24-byte header + data) form a linked list after it.       *)
(* The operators below follow src/src/jeefs.c over the in-memory backend   *)
(* of src/eepromops-memory/eepromops-memory.c.                             *)
(***************************************************************************)
EXTENDS Integers, Sequences, FiniteSets, TLC

(***************************************************************************)
(* Bounds of the model.                                                    *)
(***************************************************************************)
\* size in bytes of the EEPROM image the program opens
EepromSize == 332
\* largest dataSize a caller passes to add / write
MaxDataSize == 2
\* largest maxFiles a caller passes to list
MaxListFiles == 4
\* largest dataSize a caller of the read state machine passes to add / write
MaxReadDataSize == 3
\* bytes of the image of the large-file state machine: a version 2 header,
\* a record header and INT16_MAX + 1 bytes of data fit, with one byte left
BigEepromSize == 33049
\* bytes of the image of the header state machine: the largest header and
\* four bytes after it
HeaderEepromSize == 516

\* bytes of the image of the walk state machine: a 256-byte header and
\* three records, one of them with WalkDataSize bytes of data
WalkEepromSize == 356
\* bytes of the long data of the walk state machine
WalkDataSize == 25

\* bytes of the image the backend calls are made on
BackendSize == 4

(***************************************************************************)
(* Program constants.                                                      *)
(***************************************************************************)
FILE_NAME_LENGTH == 15
MAGIC_LENGTH == 8
EEPROM_EMPTYBYTE == 0
INT16_MAX == 32767
\* sizeof(JEEPROMHeaderversion)
HeaderVersionSize == 12
\* sizeof(JEEFSFileHeaderv1)
FileHeaderSize == 24
\* "JETHOME" and its terminating NUL
MAGIC == <<74, 69, 84, 72, 79, 77, 69, 0>>

\* EEPROMError
NOTHINGDO == 0
FILEEXISTS == -1
FILENAMETOOLONG == -2
FILENAMENOTVALID == -4
FILENOTFOUND == -5
NOTENOUGHSPACE == -6
BUFFERNOTVALID == -8
EEPROMCORRUPTED == -10
EEPROMREADERROR == -11

(***************************************************************************)
(* Fixed-width integer conversions.                                        *)
(***************************************************************************)
ToUint16(x) == x % 65536
ToInt16(x) == LET u == x % 65536 IN IF u >= 32768 THEN u - 65536 ELSE u
ToUint8(x) == x % 256

\* little-endian 16-bit field
Le16(lo, hi) == lo + 256 * hi
Le16Bytes(x) == <<x % 256, (x \div 256) % 256>>

(***************************************************************************)
(* CRC-32 (zlib crc32(0, data, length)); a 32-bit value is kept as the     *)
(* pair <<high 16 bits, low 16 bits>>.                                     *)
(***************************************************************************)
RECURSIVE Xor(_, _)
Xor(a, b) ==
    IF a = 0 THEN b
    ELSE IF b = 0 THEN a
    ELSE (((a % 2) + (b % 2)) % 2) + 2 * Xor(a \div 2, b \div 2)

\* one bit step of the reflected CRC-32, polynomial 0xEDB88320
CrcShift(c) ==
    LET hi == c[1] \div 2
        lo == (c[2] \div 2) + (c[1] % 2) * 32768
    IN  IF c[2] % 2 = 1 THEN <<Xor(hi, 60856), Xor(lo, 33568)>> ELSE <<hi, lo>>

CrcTableEntry(i) ==
    CrcShift(CrcShift(CrcShift(CrcShift(CrcShift(CrcShift(CrcShift(CrcShift(<<0, i>>))))))))

CrcTable == [i \in 0..255 |-> CrcTableEntry(i)]

\* crc = table[(crc ^ byte) & 0xff] ^ (crc >> 8)
CrcByte(c, b) ==
    LET t == CrcTable[Xor(c[2] % 256, b)]
        hi == c[1] \div 256
        lo == (c[2] \div 256) + (c[1] % 256) * 256
    IN  <<Xor(t[1], hi), Xor(t[2], lo)>>

\* the bytes data[i..j] folded into the running CRC c, in order.  The range
\* is halved and the left half is evaluated (by the test on it) before the
\* right half starts, so that the evaluation nests log(j - i) deep.
RECURSIVE CrcFold(_, _, _, _)
CrcFold(c, data, i, j) ==
    IF i > j THEN c
    ELSE IF i = j THEN CrcByte(c, data[i])
    ELSE LET m == (i + j) \div 2
             left == CrcFold(c, data, i, m)
         IN  IF left[1] < 0 THEN left ELSE CrcFold(left, data, m + 1, j)

\* the CRC as the four bytes a little-endian host stores
calculateCRC32(data) ==
    LET c == CrcFold(<<65535, 65535>>, data, 1, Len(data))
        hi == Xor(c[1], 65535)
        lo == Xor(c[2], 65535)
    IN  <<lo % 256, lo \div 256, hi % 256, hi \div 256>>

(***************************************************************************)
(* Image backend (in-memory block).  An image is the sequence of the bytes *)
(* of the block: the byte at offset o is img[o + 1], and the length of the *)
(* sequence is eeprom_descriptor.eeprom_size (= block->size).              *)
(***************************************************************************)
eeprom_size(img) == Len(img)

\* eeprom_read: -1 and nothing copied when offset + count > eeprom_size
eeprom_read(img, count, offset) ==
    IF offset + count > eeprom_size(img)
    THEN [ret |-> -1, buf |-> <<>>]
    ELSE [ret |-> count, buf |-> [i \in 1..count |-> img[offset + i]]]

\* eeprom_write: the image after the call
eeprom_write(img, buf, count, offset) ==
    IF offset + count > eeprom_size(img)
    THEN img
    ELSE [i \in 1..Len(img) |->
            IF i > offset /\ i <= offset + count THEN buf[i - offset] ELSE img[i]]

\* eeprom_write: the uint16_t it returns ((uint16_t)-1 on rejection)
eeprom_write_ret(img, count, offset) ==
    IF offset + count > eeprom_size(img) THEN ToUint16(-1) ELSE count

(***************************************************************************)
(* Image backend (file, src/src/eepromops.c).  The image is the content of *)
(* the open file; `size` is eeprom_descriptor.eeprom_size.                 *)
(***************************************************************************)
\* lseek(fd, offset, SEEK_SET): the resulting offset from the start
lseek(offset) == offset

\* read(fd, buf, count) at a file offset: the bytes up to the end of the file
read(img, count, offset) ==
    LET n == IF offset >= Len(img) THEN 0
             ELSE IF offset + count > Len(img) THEN Len(img) - offset
             ELSE count
    IN  [ret |-> n, buf |-> [i \in 1..n |-> img[offset + i]]]

\* write(fd, buf, count) at a file offset inside the file
write(img, buf, count, offset) ==
    [ret |-> count,
     img |-> [i \in 1..Len(img) |->
                 IF i > offset /\ i <= offset + count THEN buf[i - offset] ELSE img[i]]]

\* eeprom_read of the file backend
file_eeprom_read(img, count, offset) ==
    IF lseek(offset) = 0
    THEN [ret |-> -1, buf |-> <<>>]
    ELSE read(img, count, offset)

\* eeprom_write of the file backend
file_eeprom_write(img, size, buf, count, offset) ==
    IF lseek(offset) = 0
    THEN [ret |-> -1, img |-> img]
    ELSE IF offset + count > size
    THEN [ret |-> -1, img |-> img]
    ELSE write(img, buf, count, offset)

(***************************************************************************)
(* C strings.                                                              *)
(***************************************************************************)
\* the characters of the first n bytes of buf that precede the first NUL
RECURSIVE CStr(_, _, _)
CStr(buf, n, i) ==
    IF i > n \/ i > Len(buf) THEN <<>>
    ELSE IF buf[i] = 0 THEN <<>>
    ELSE <<buf[i]>> \o CStr(buf, n, i + 1)

\* strncmp(a, b, n) == 0
strncmp_eq(a, b, n) == CStr(a, n, 1) = CStr(b, n, 1)

\* strncpy(dst, src, n) into a zeroed field of `width` bytes
strncpy(filename, n, width) ==
    [i \in 1..width |-> IF i <= n /\ i <= Len(filename) THEN filename[i] ELSE 0]

(***************************************************************************)
(* Board header.                                                           *)
(***************************************************************************)
\* jeefs_header_size / sizeof(JEEPROMHeaderv1|v2|v3)
jeefs_header_size(version) ==
    CASE version = 1 -> 512
      [] version = 2 -> 256
      [] version = 3 -> 256
      [] OTHER -> -1

\* a header size taken from the version byte alone, whatever the magic
EEPROM_GetHeaderSize_nomagic(header) == jeefs_header_size(header[9])

\* EEPROM_GetHeaderSize on the first 12 bytes of a header
EEPROM_GetHeaderSize(header) ==
    IF ~strncmp_eq(SubSeq(header, 1, MAGIC_LENGTH), MAGIC, MAGIC_LENGTH)
    THEN -1
    ELSE jeefs_header_size(header[9])

EEPROM_GetHeaderSize_read(img) ==
    EEPROM_GetHeaderSize(eeprom_read(img, HeaderVersionSize, 0).buf)

(***************************************************************************)
(* File records.                                                           *)
(***************************************************************************)
\* JEEFSFileHeaderv1 read from its 24 packed bytes
FileHeaderOf(buf) ==
    [name            |-> SubSeq(buf, 1, 16),
     dataSize        |-> Le16(buf[17], buf[18]),
     crc32           |-> SubSeq(buf, 19, 22),
     nextFileAddress |-> Le16(buf[23], buf[24])]

\* the 24 packed bytes of a JEEFSFileHeaderv1
FileHeaderBytes(h) ==
    h.name \o Le16Bytes(h.dataSize) \o h.crc32 \o Le16Bytes(h.nextFileAddress)

NoFileHeader ==
    [name |-> [i \in 1..16 |-> 0], dataSize |-> 0, crc32 |-> <<0, 0, 0, 0>>,
     nextFileAddress |-> 0]

EEPROM_ByteIsEmpty(var) == var = 255 \/ var = 0
EEPROM_WordIsEmpty(var) == var = 65535 \/ var = 0

EEPROM_getNextFileAddress(img, currentAddress) ==
    LET r == eeprom_read(img, FileHeaderSize, currentAddress)
    IN  IF r.ret # FileHeaderSize THEN 0 ELSE FileHeaderOf(r.buf).nextFileAddress

\* The while(1) walk of EEPROM_FindFile.  `visited` holds the offsets the
\* walk has been at: coming back to one of them means the loop of the C code
\* never ends (halts = FALSE).
RECURSIVE FindFile_walk(_, _, _, _)
FindFile_walk(img, filename, currentAddress, visited) ==
    IF currentAddress \in visited
    THEN [halts |-> FALSE, ret |-> 0, header |-> NoFileHeader, address |-> 0]
    ELSE
      LET r == eeprom_read(img, FileHeaderSize, currentAddress) IN
      IF r.ret # FileHeaderSize
      THEN [halts |-> TRUE, ret |-> -1, header |-> NoFileHeader, address |-> 0]
      ELSE
        LET fileHeader == FileHeaderOf(r.buf) IN
        IF strncmp_eq(fileHeader.name, filename \o <<0>>, FILE_NAME_LENGTH)
        THEN [halts |-> TRUE, ret |-> 1, header |-> fileHeader,
              address |-> currentAddress]
        ELSE
          LET next == EEPROM_getNextFileAddress(img, currentAddress) IN
          IF next = 0
          THEN [halts |-> TRUE, ret |-> 0, header |-> NoFileHeader, address |-> 0]
          ELSE FindFile_walk(img, filename, next, visited \cup {currentAddress})

EEPROM_FindFile(img, filename) ==
    IF Len(filename) > FILE_NAME_LENGTH
    THEN [halts |-> TRUE, ret |-> FILENAMENOTVALID, header |-> NoFileHeader,
          address |-> 0]
    ELSE
      LET headerSize == EEPROM_GetHeaderSize_read(img) IN
      IF headerSize < 0
      THEN [halts |-> TRUE, ret |-> -1, header |-> NoFileHeader, address |-> 0]
      ELSE FindFile_walk(img, filename, ToUint16(headerSize), {})

\* EEPROM_ListFiles: the count and the fileList entries written; an entry
\* is the 15 bytes strncpy leaves in fileList[count]
RECURSIVE ListFiles_walk(_, _, _, _)
ListFiles_walk(img, maxFiles, currentAddress, names) ==
    IF ~(Len(names) < maxFiles) THEN names
    ELSE
      LET r == eeprom_read(img, FileHeaderSize, currentAddress) IN
      IF r.ret # FileHeaderSize THEN names
      ELSE
        LET entry == strncpy(CStr(r.buf, FILE_NAME_LENGTH, 1), FILE_NAME_LENGTH,
                             FILE_NAME_LENGTH)
            next  == EEPROM_getNextFileAddress(img, currentAddress)
        IN  IF next = 0 THEN Append(names, entry)
            ELSE ListFiles_walk(img, maxFiles, next, Append(names, entry))

EEPROM_ListFiles(img, maxFiles) ==
    LET names == ListFiles_walk(img, maxFiles,
                                ToUint16(EEPROM_GetHeaderSize_read(img)), <<>>)
    IN  [ret |-> ToInt16(Len(names)), fileList |-> names]

\* a read that copies from the record header instead of the data after it
ReadFile_copy_header(img, f, buffer, bufferSize) ==
    LET r == eeprom_read(img, f.header.dataSize, ToUint16(f.address))
        filled == [i \in 1..bufferSize |->
                      IF r.ret > 0 /\ i <= r.ret THEN r.buf[i] ELSE buffer[i]]
    IN  [halts |-> TRUE,
         ret |-> ToInt16(IF r.ret > 0 THEN r.ret ELSE -1),
         buffer |-> filled]

\* the end of EEPROM_ReadFile: dataSize bytes from the offset after the
\* record header go to the buffer, and their count is returned
ReadFile_copy(img, f, buffer, bufferSize) ==
    LET r == eeprom_read(img, f.header.dataSize,
                         ToUint16(f.address + FileHeaderSize))
        filled == [i \in 1..bufferSize |->
                      IF r.ret > 0 /\ i <= r.ret THEN r.buf[i] ELSE buffer[i]]
    IN  [halts |-> TRUE,
         ret |-> ToInt16(IF r.ret > 0 THEN r.ret ELSE -1),
         buffer |-> filled]

\* the test of EEPROM_ReadFile for "provided buffer is too small"
ReadFile_toosmall(f, bufferSize) == f.header.dataSize > bufferSize

\* a read that recomputes the CRC32 of the data and refuses the file when
\* the crc32 field of the record differs
EEPROM_ReadFile_verified(img, filename, buffer, bufferSize) ==
    IF Len(filename) > FILE_NAME_LENGTH
    THEN [halts |-> TRUE, ret |-> FILENAMENOTVALID, buffer |-> buffer]
    ELSE IF bufferSize = 0
    THEN [halts |-> TRUE, ret |-> BUFFERNOTVALID, buffer |-> buffer]
    ELSE
      LET f == EEPROM_FindFile(img, filename) IN
      IF ~f.halts THEN [halts |-> FALSE, ret |-> 0, buffer |-> buffer]
      ELSE IF f.ret # 1
      THEN [halts |-> TRUE, ret |-> FILENOTFOUND, buffer |-> buffer]
      ELSE IF ReadFile_toosmall(f, bufferSize)
      THEN [halts |-> TRUE, ret |-> BUFFERNOTVALID, buffer |-> buffer]
      ELSE IF f.header.crc32 #
                  calculateCRC32(eeprom_read(img, f.header.dataSize,
                                             ToUint16(f.address + FileHeaderSize)).buf)
      THEN [halts |-> TRUE, ret |-> EEPROMCORRUPTED, buffer |-> buffer]
      ELSE ReadFile_copy(img, f, buffer, bufferSize)

\* EEPROM_ReadFile into a caller buffer of bufferSize bytes `buffer`
EEPROM_ReadFile(img, filename, buffer, bufferSize) ==
    IF Len(filename) > FILE_NAME_LENGTH
    THEN [halts |-> TRUE, ret |-> FILENAMENOTVALID, buffer |-> buffer]
    ELSE IF bufferSize = 0
    THEN [halts |-> TRUE, ret |-> BUFFERNOTVALID, buffer |-> buffer]
    ELSE
      LET f == EEPROM_FindFile(img, filename) IN
      IF ~f.halts THEN [halts |-> FALSE, ret |-> 0, buffer |-> buffer]
      ELSE IF f.ret # 1
      THEN [halts |-> TRUE, ret |-> FILENOTFOUND, buffer |-> buffer]
      ELSE IF ReadFile_toosmall(f, bufferSize)
      THEN [halts |-> TRUE, ret |-> BUFFERNOTVALID, buffer |-> buffer]
      ELSE ReadFile_copy(img, f, buffer, bufferSize)

(***************************************************************************)
(* EEPROM_AddFile.                                                         *)
(***************************************************************************)
\* the loop that looks for the free slot: where it stops (currentAddress is
\* not used after it) and the last valid record it passed
RECURSIVE AddFile_walk(_, _, _)
AddFile_walk(img, currentAddress, previousAddress) ==
    IF ~(~EEPROM_WordIsEmpty(currentAddress)
         /\ currentAddress < eeprom_size(img) - FileHeaderSize)
    THEN [readError |-> FALSE, previousAddress |-> previousAddress]
    ELSE
      LET r == eeprom_read(img, FileHeaderSize, currentAddress) IN
      IF r.ret # FileHeaderSize
      THEN [readError |-> TRUE, previousAddress |-> previousAddress]
      ELSE
        LET h == FileHeaderOf(r.buf) IN
        IF EEPROM_ByteIsEmpty(h.name[1])
           \/ EEPROM_WordIsEmpty(h.dataSize)
           \/ (~EEPROM_WordIsEmpty(h.nextFileAddress)
               /\ h.nextFileAddress # h.dataSize + FileHeaderSize + currentAddress)
        THEN [readError |-> FALSE, previousAddress |-> previousAddress]
        ELSE AddFile_walk(img, h.nextFileAddress, currentAddress)

\* a refusal that comes after the header of the previous record was
\* written back with its new nextFileAddress
AddFile_refused_relinked(img, prevHeader, previousAddress) ==
    IF previousAddress # 0
    THEN eeprom_write(img, FileHeaderBytes(prevHeader), FileHeaderSize, previousAddress)
    ELSE img

\* the image EEPROM_AddFile leaves when it returns NOTENOUGHSPACE: the test
\* comes before every write, the new nextFileAddress of the previous record
\* is only in the local copy of its header
AddFile_refused(img, prevHeader, previousAddress) == img

\* the part of EEPROM_AddFile after the free slot is known
AddFile_place(img, filename, data, dataSize, headerSize, previousAddress) ==
    LET prevRead == eeprom_read(img, FileHeaderSize, previousAddress)
        prevOld  == FileHeaderOf(prevRead.buf)
        prevHeader == [prevOld EXCEPT !.nextFileAddress =
                          ToUint16(previousAddress + FileHeaderSize + prevOld.dataSize)]
        currentAddress == IF previousAddress # 0
                          THEN prevHeader.nextFileAddress ELSE headerSize
    IN
    IF currentAddress + FileHeaderSize + dataSize >= eeprom_size(img)
    THEN [halts |-> TRUE, ret |-> NOTENOUGHSPACE,
          img |-> AddFile_refused(img, prevHeader, previousAddress)]
    ELSE
      LET img1 == IF previousAddress # 0
                  THEN eeprom_write(img, FileHeaderBytes(prevHeader), FileHeaderSize,
                                    previousAddress)
                  ELSE img
          newHeader == [name |-> strncpy(filename, FILE_NAME_LENGTH, 16),
                        dataSize |-> dataSize,
                        crc32 |-> calculateCRC32(data),
                        nextFileAddress |-> 0]
          img2 == eeprom_write(img1, FileHeaderBytes(newHeader), FileHeaderSize,
                               currentAddress)
          dataAddress == ToUint16(currentAddress + FileHeaderSize)
          img3 == eeprom_write(img2, data, dataSize, dataAddress)
      IN
      IF eeprom_write_ret(img1, FileHeaderSize, currentAddress) # FileHeaderSize
      THEN [halts |-> TRUE, ret |-> -1, img |-> img2]
      ELSE IF eeprom_write_ret(img2, dataSize, dataAddress) # dataSize
      THEN [halts |-> TRUE, ret |-> -1, img |-> img3]
      ELSE [halts |-> TRUE, ret |-> ToInt16(dataSize % INT16_MAX), img |-> img3]

\* an add that never takes the name for stored
AddFile_exists_never(f) == FALSE

\* the test of EEPROM_AddFile for "file already exists"
AddFile_exists(f) == f.ret = 1

EEPROM_AddFile(img, filename, data, dataSize) ==
    IF Len(filename) > FILE_NAME_LENGTH
    THEN [halts |-> TRUE, ret |-> FILENAMENOTVALID, img |-> img]
    ELSE IF dataSize = 0
    THEN [halts |-> TRUE, ret |-> BUFFERNOTVALID, img |-> img]
    ELSE
      LET headerSize == ToUint16(EEPROM_GetHeaderSize_read(img))
          f == EEPROM_FindFile(img, filename)
      IN
      IF ~f.halts THEN [halts |-> FALSE, ret |-> 0, img |-> img]
      ELSE IF AddFile_exists(f) THEN [halts |-> TRUE, ret |-> 0, img |-> img]
      ELSE
        LET w == AddFile_walk(img, headerSize, 0) IN
        IF w.readError THEN [halts |-> TRUE, ret |-> EEPROMREADERROR, img |-> img]
        ELSE AddFile_place(img, filename, data, dataSize, headerSize,
                           w.previousAddress)

\* one call of eeprom_write, as the backend receives it
BackendWrite(buf, count, offset) == [buf |-> buf, count |-> count, offset |-> offset]

\* the calls of eeprom_write the end of EEPROM_AddFile makes, in the order
\* of the code: the previous header, the new header, the data
AddFile_place_writes(img, filename, data, dataSize, headerSize, previousAddress) ==
    LET prevRead == eeprom_read(img, FileHeaderSize, previousAddress)
        prevOld  == FileHeaderOf(prevRead.buf)
        prevHeader == [prevOld EXCEPT !.nextFileAddress =
                          ToUint16(previousAddress + FileHeaderSize + prevOld.dataSize)]
        currentAddress == IF previousAddress # 0
                          THEN prevHeader.nextFileAddress ELSE headerSize
    IN
    IF currentAddress + FileHeaderSize + dataSize >= eeprom_size(img)
    THEN <<>>
    ELSE
      LET relink == IF previousAddress # 0
                    THEN <<BackendWrite(FileHeaderBytes(prevHeader), FileHeaderSize,
                                        previousAddress)>>
                    ELSE <<>>
          newHeader == [name |-> strncpy(filename, FILE_NAME_LENGTH, 16),
                        dataSize |-> dataSize,
                        crc32 |-> calculateCRC32(data),
                        nextFileAddress |-> 0]
          header == <<BackendWrite(FileHeaderBytes(newHeader), FileHeaderSize,
                                   currentAddress)>>
      IN
      IF eeprom_write_ret(img, FileHeaderSize, currentAddress) # FileHeaderSize
      THEN relink \o header
      ELSE relink \o header
               \o <<BackendWrite(data, dataSize,
                                 ToUint16(currentAddress + FileHeaderSize))>>

\* the calls of eeprom_write one call of EEPROM_AddFile makes
AddFile_writes(img, filename, data, dataSize) ==
    IF Len(filename) > FILE_NAME_LENGTH \/ dataSize = 0
    THEN <<>>
    ELSE
      LET headerSize == ToUint16(EEPROM_GetHeaderSize_read(img))
          f == EEPROM_FindFile(img, filename)
      IN
      IF ~f.halts \/ AddFile_exists(f) THEN <<>>
      ELSE
        LET w == AddFile_walk(img, headerSize, 0) IN
        IF w.readError THEN <<>>
        ELSE AddFile_place_writes(img, filename, data, dataSize, headerSize,
                                  w.previousAddress)

\* the image after the backend has taken the writes, first to last
RECURSIVE ApplyWrites(_, _)
ApplyWrites(img, writes) ==
    IF writes = <<>> THEN img
    ELSE ApplyWrites(eeprom_write(img, Head(writes).buf, Head(writes).count,
                                  Head(writes).offset),
                     Tail(writes))

(***************************************************************************)
(* EEPROM_DeleteFile.                                                      *)
(***************************************************************************)
\* the loop that moves the following bytes down, shiftSize bytes at a time
RECURSIVE DeleteFile_shift(_, _, _)
DeleteFile_shift(img, readAddress, shiftSize) ==
    IF ~(readAddress < eeprom_size(img))
    THEN [img |-> img, readAddress |-> readAddress]
    ELSE
      LET r == eeprom_read(img, shiftSize, readAddress) IN
      IF r.ret <= 0
      THEN [img |-> img, readAddress |-> readAddress]
      ELSE DeleteFile_shift(
               eeprom_write(img, r.buf, r.ret, ToUint16(readAddress - shiftSize)),
               ToUint16(readAddress + r.ret), shiftSize)

\* the loop that clears the bytes below readAddress, one byte per
\* eeprom_write: the offsets whose write the backend accepts
RECURSIVE DeleteFile_cleared(_, _, _, _)
DeleteFile_cleared(size, readAddress, shiftSize, i) ==
    IF ~(i < shiftSize /\ readAddress - i >= 0 /\ readAddress - i < size)
    THEN {}
    ELSE LET offset == ToUint16(readAddress - i - 1) IN
         (IF offset + 1 > size THEN {} ELSE {offset})
             \cup DeleteFile_cleared(size, readAddress, shiftSize, i + 1)

DeleteFile_clear(img, readAddress, shiftSize) ==
    LET cleared == DeleteFile_cleared(eeprom_size(img), readAddress, shiftSize, 0) IN
    [i \in 1..Len(img) |-> IF (i - 1) \in cleared THEN EEPROM_EMPTYBYTE ELSE img[i]]

\* a test that takes only an error of the search for a missing file
DeleteFile_missing_error(f) == f.ret < 0

\* the test of EEPROM_DeleteFile for "file not found or error"
DeleteFile_missing(f) == f.ret <= 0

\* a delete that only empties the first byte of the name of the record and
\* moves nothing
EEPROM_DeleteFile_mark(img, filename) ==
    IF Len(filename) > FILE_NAME_LENGTH
    THEN [halts |-> TRUE, ret |-> FILENAMENOTVALID, img |-> img]
    ELSE
      LET f == EEPROM_FindFile(img, filename) IN
      IF ~f.halts THEN [halts |-> FALSE, ret |-> 0, img |-> img]
      ELSE IF DeleteFile_missing(f)
      THEN [halts |-> TRUE, ret |-> FILENOTFOUND, img |-> img]
      ELSE [halts |-> TRUE, ret |-> 1,
            img |-> eeprom_write(img, <<EEPROM_EMPTYBYTE>>, 1, f.address)]

EEPROM_DeleteFile(img, filename) ==
    IF Len(filename) > FILE_NAME_LENGTH
    THEN [halts |-> TRUE, ret |-> FILENAMENOTVALID, img |-> img]
    ELSE
      LET f == EEPROM_FindFile(img, filename) IN
      IF ~f.halts THEN [halts |-> FALSE, ret |-> 0, img |-> img]
      ELSE IF DeleteFile_missing(f)
      THEN [halts |-> TRUE, ret |-> FILENOTFOUND, img |-> img]
      ELSE
        LET nextAddress == ToUint16(f.address + FileHeaderSize + f.header.dataSize)
            shiftSize   == ToUint16(FileHeaderSize + f.header.dataSize)
            moved       == DeleteFile_shift(img, nextAddress, shiftSize)
        IN  [halts |-> TRUE, ret |-> 1,
             img |-> DeleteFile_clear(moved.img, moved.readAddress, shiftSize)]

(***************************************************************************)
(* EEPROM_WriteFile.                                                       *)
(***************************************************************************)
\* an overwrite that builds the record header anew, as add does, and so
\* ends the list at the written file
WriteFile_overwrite_relink(img, f, data, dataSize) ==
    LET dataAddress == ToUint16(f.address + FileHeaderSize) IN
    IF eeprom_write_ret(img, dataSize, dataAddress) # dataSize
    THEN [halts |-> TRUE, ret |-> 0, img |-> img]
    ELSE
      LET img1 == eeprom_write(img, data, dataSize, dataAddress)
          fileHeader == [f.header EXCEPT !.crc32 = calculateCRC32(data),
                                         !.nextFileAddress = 0]
      IN  [halts |-> TRUE, ret |-> ToInt16(dataSize),
           img |-> eeprom_write(img1, FileHeaderBytes(fileHeader), FileHeaderSize,
                                f.address)]

\* the same-size branch of EEPROM_WriteFile: the data are overwritten in
\* place, then the header found is written back with the new CRC
WriteFile_overwrite(img, f, data, dataSize) ==
    LET dataAddress == ToUint16(f.address + FileHeaderSize) IN
    IF eeprom_write_ret(img, dataSize, dataAddress) # dataSize
    THEN [halts |-> TRUE, ret |-> 0, img |-> img]
    ELSE
      LET img1 == eeprom_write(img, data, dataSize, dataAddress)
          fileHeader == [f.header EXCEPT !.crc32 = calculateCRC32(data)]
      IN  [halts |-> TRUE, ret |-> ToInt16(dataSize),
           img |-> eeprom_write(img1, FileHeaderBytes(fileHeader), FileHeaderSize,
                                f.address)]

EEPROM_WriteFile(img, filename, data, dataSize) ==
    IF Len(filename) > FILE_NAME_LENGTH
    THEN [halts |-> TRUE, ret |-> FILENAMENOTVALID, img |-> img]
    ELSE IF dataSize = 0
    THEN [halts |-> TRUE, ret |-> BUFFERNOTVALID, img |-> img]
    ELSE
      LET f == EEPROM_FindFile(img, filename) IN
      IF ~f.halts THEN [halts |-> FALSE, ret |-> 0, img |-> img]
      ELSE IF f.ret # 1 THEN [halts |-> TRUE, ret |-> FILENOTFOUND, img |-> img]
      ELSE IF f.header.dataSize # dataSize
      THEN \* different size: delete, then add; the result of the delete is dropped
           LET d == EEPROM_DeleteFile(img, filename) IN
           IF ~d.halts THEN [halts |-> FALSE, ret |-> 0, img |-> img]
           ELSE EEPROM_AddFile(d.img, filename, data, dataSize)
      ELSE WriteFile_overwrite(img, f, data, dataSize)

(***************************************************************************)
(* EEPROM_FormatEEPROM.                                                    *)
(***************************************************************************)
\* the header EEPROM_FormatEEPROM builds for version 1, 2 or 3: zeros, the
\* magic, the version byte and the CRC in the last four bytes
FormatHeader(version) ==
    LET size == jeefs_header_size(version)
        plain == [i \in 1..(size - 4) |->
                     IF i <= MAGIC_LENGTH THEN MAGIC[i]
                     ELSE IF i = 9 THEN ToUint8(version)
                     ELSE EEPROM_EMPTYBYTE]
    IN  plain \o calculateCRC32(plain)

\* the three headers, built once
FormatHeaders == [version \in 1..3 |-> FormatHeader(version)]

\* a format that leaves the bytes after the header in the erased state 0xFF
FormatBuffer_erased(size, version) ==
    [i \in 1..size |->
        IF i <= jeefs_header_size(version) THEN FormatHeaders[version][i]
        ELSE 255]

\* buffer[ep.eeprom_size]: the header, then EEPROM_EMPTYBYTE
FormatBuffer(size, version) ==
    [i \in 1..size |->
        IF i <= jeefs_header_size(version) THEN FormatHeaders[version][i]
        ELSE EEPROM_EMPTYBYTE]

\* The buffer has eeprom_size bytes and the code stores the header CRC at
\* header size - 4 without a check: a header that does not fit the image
\* is a write past the buffer (FormatDefined is FALSE).
FormatDefined(img, version) ==
    version \in 1..3 => jeefs_header_size(version) <= eeprom_size(img)

\* a format whose switch has no default: an unknown version gets the magic
\* and the version byte written without a CRC
EEPROM_FormatEEPROM_nodefault(img, version) ==
    IF version \in 1..3
    THEN [ret |-> 0,
          img |-> eeprom_write(img, FormatBuffer(eeprom_size(img), version),
                               eeprom_size(img), 0)]
    ELSE [ret |-> 0,
          img |-> [i \in 1..Len(img) |->
                      IF i <= MAGIC_LENGTH THEN MAGIC[i]
                      ELSE IF i = 9 THEN ToUint8(version)
                      ELSE EEPROM_EMPTYBYTE]]

EEPROM_FormatEEPROM(img, version) ==
    IF version \in 1..3
    THEN [ret |-> 0,
          img |-> eeprom_write(img, FormatBuffer(eeprom_size(img), version),
                               eeprom_size(img), 0)]
    ELSE [ret |-> -1, img |-> img]

(***************************************************************************)
(* The header codec (jeefs_header.c) and EEPROM_HeaderCheckConsistency.    *)
(* A buffer is the sequence of its bytes; NULL is the pointer to nothing.  *)
(***************************************************************************)
NULL == <<>>

header_crc32(data, length) == calculateCRC32(SubSeq(data, 1, length))

\* a detection that trusts the buffer to hold the version struct
jeefs_header_detect_version_nolen(data, len) ==
    IF data = NULL THEN -1
    ELSE IF ~strncmp_eq(SubSeq(data, 1, MAGIC_LENGTH), MAGIC, MAGIC_LENGTH) THEN -1
    ELSE IF jeefs_header_size(data[9]) < 0 THEN -1
    ELSE data[9]

jeefs_header_detect_version(data, len) ==
    IF data = NULL \/ len < HeaderVersionSize THEN -1
    ELSE IF ~strncmp_eq(SubSeq(data, 1, MAGIC_LENGTH), MAGIC, MAGIC_LENGTH) THEN -1
    ELSE IF jeefs_header_size(data[9]) < 0 THEN -1
    ELSE data[9]

\* a verification that takes a stored CRC of 0 like any other
verify_crc_zero_accepted(stored_crc) == FALSE

\* stored_crc == 0
verify_crc_zero(stored_crc) == stored_crc = <<0, 0, 0, 0>>

\* a verification that does not compare the CRCs
verify_crc_mismatch_ignored(calc_crc, stored_crc) == FALSE

\* calc_crc != stored_crc
verify_crc_mismatch(calc_crc, stored_crc) == calc_crc # stored_crc

\* a verification with a return value of its own for the CRC failure
jeefs_header_verify_crc_badcrc(data, len) ==
    LET ver == jeefs_header_detect_version(data, len) IN
    IF ver < 0 THEN -1
    ELSE
      LET hdr_size == jeefs_header_size(ver) IN
      IF len < hdr_size THEN -1
      ELSE
        LET crc_offset == hdr_size - 4
            stored_crc == SubSeq(data, crc_offset + 1, crc_offset + 4)
        IN  IF \/ verify_crc_zero(stored_crc)
               \/ verify_crc_mismatch(header_crc32(data, crc_offset), stored_crc)
            THEN -2
            ELSE 0

jeefs_header_verify_crc(data, len) ==
    LET ver == jeefs_header_detect_version(data, len) IN
    IF ver < 0 THEN -1
    ELSE
      LET hdr_size == jeefs_header_size(ver) IN
      IF len < hdr_size THEN -1
      ELSE
        LET crc_offset == hdr_size - 4
            stored_crc == SubSeq(data, crc_offset + 1, crc_offset + 4)
        IN  IF \/ verify_crc_zero(stored_crc)
               \/ verify_crc_mismatch(header_crc32(data, crc_offset), stored_crc)
            THEN -1
            ELSE 0

\* the return value and the buffer as jeefs_header_update_crc leaves it
jeefs_header_update_crc(data, len) ==
    LET ver == jeefs_header_detect_version(data, len) IN
    IF ver < 0 THEN [ret |-> -1, data |-> data]
    ELSE
      LET hdr_size == jeefs_header_size(ver) IN
      IF len < hdr_size THEN [ret |-> -1, data |-> data]
      ELSE
        LET crc_offset == hdr_size - 4
            calc_crc == header_crc32(data, crc_offset)
        IN  [ret |-> 0,
             data |-> [i \in 1..Len(data) |->
                          IF i > crc_offset /\ i <= hdr_size
                          THEN calc_crc[i - crc_offset] ELSE data[i]]]

\* an init that zero-fills the len bytes of the buffer, not the hdr_size
\* bytes of the header
jeefs_header_init_whole(data, len, version) ==
    LET hdr_size == jeefs_header_size(version) IN
    IF hdr_size < 0 \/ len < hdr_size THEN [ret |-> -1, data |-> data]
    ELSE jeefs_header_update_crc(
             [i \in 1..Len(data) |->
                 IF i <= MAGIC_LENGTH THEN MAGIC[i]
                 ELSE IF i = 9 THEN ToUint8(version)
                 ELSE IF i <= len THEN 0
                 ELSE data[i]],
             len)

jeefs_header_init(data, len, version) ==
    LET hdr_size == jeefs_header_size(version) IN
    IF hdr_size < 0 \/ len < hdr_size THEN [ret |-> -1, data |-> data]
    ELSE jeefs_header_update_crc(
             [i \in 1..Len(data) |->
                 IF i <= MAGIC_LENGTH THEN MAGIC[i]
                 ELSE IF i = 9 THEN ToUint8(version)
                 ELSE IF i <= hdr_size THEN 0
                 ELSE data[i]],
             len)

\* EEPROM_GetHeader into a buffer of `size` bytes: the return value and the
\* bytes read (`whole` tells that the last read filled the buffer)
EEPROM_GetHeader(img, size) ==
    IF size < HeaderVersionSize THEN [ret |-> -1, header |-> <<>>, whole |-> TRUE]
    ELSE
      LET _size == EEPROM_GetHeaderSize(eeprom_read(img, HeaderVersionSize, 0).buf) IN
      IF _size < 0 \/ size < _size
      THEN [ret |-> -1, header |-> <<>>, whole |-> TRUE]
      ELSE LET r == eeprom_read(img, size, 0)
           IN  [ret |-> 0, header |-> r.buf, whole |-> r.ret = size]

\* a check without the test for a stored CRC of 0
EEPROM_HeaderCheckConsistency_nozero(img) ==
    LET headersize == EEPROM_GetHeaderSize_read(img) IN
    IF headersize < 0 THEN {-1}
    ELSE
      LET h == EEPROM_GetHeader(img, headersize) IN
      IF h.ret < 0 THEN {-1}
      ELSE IF ~h.whole THEN {-1, 0}
      ELSE
        LET crc32old   == SubSeq(h.header, headersize - 3, headersize)
            crc32_calc == calculateCRC32(SubSeq(h.header, 1, headersize - 4))
        IN  IF crc32_calc # crc32old THEN {-1} ELSE {0}

\* EEPROM_HeaderCheckConsistency: the values it can return.  When the image
\* is shorter than the header of its version the read of the header fails
\* unnoticed and the CRCs are taken from bytes that were never written.
EEPROM_HeaderCheckConsistency(img) ==
    LET headersize == EEPROM_GetHeaderSize_read(img) IN
    IF headersize < 0 THEN {-1}
    ELSE
      LET h == EEPROM_GetHeader(img, headersize) IN
      IF h.ret < 0 THEN {-1}
      ELSE IF ~h.whole THEN {-1, 0}
      ELSE
        LET crc32old   == SubSeq(h.header, headersize - 3, headersize)
            crc32_calc == calculateCRC32(SubSeq(h.header, 1, headersize - 4))
        IN  IF crc32old = <<0, 0, 0, 0>> \/ crc32_calc # crc32old THEN {-1} ELSE {0}

\* what EEPROM_SetHeader returns after the write: -(written == size)
SetHeader_result(written, size) == IF written = size THEN -1 ELSE 0

\* EEPROM_SetHeader: the return value and the image; the CRC of the header
\* of the version is computed into the caller's header, then the header is
\* written at offset 0
EEPROM_SetHeader(img, header) ==
    IF header = NULL THEN [ret |-> -1, img |-> img]
    ELSE IF ~strncmp_eq(SubSeq(header, 1, MAGIC_LENGTH), MAGIC, MAGIC_LENGTH)
    THEN [ret |-> -1, img |-> img]
    ELSE IF header[9] \in 1..3
    THEN LET size == jeefs_header_size(header[9])
             crc32 == calculateCRC32(SubSeq(header, 1, size - 4))
             h == [i \in 1..size |->
                      IF i > size - 4 THEN crc32[i - (size - 4)] ELSE header[i]]
         IN  [ret |-> SetHeader_result(eeprom_write_ret(img, size, 0), size),
              img |-> eeprom_write(img, h, size, 0)]
    ELSE [ret |-> -1, img |-> img]

(***************************************************************************)
(* The state machine.  The caller makes one call at a time on the image:   *)
(* a call step records the call, its return value and what it handed back, *)
(* and Return is the caller going on to its next call.                     *)
(***************************************************************************)
VARIABLES eeprom, call, ret, out

vars == <<eeprom, call, ret, out>>

\* file names the callers use: "a", "b", "c"
Names == {<<97>>, <<98>>, <<99>>}
\* byte values the callers store; 97 is also the character of the name "a"
DataBytes == {0, 97}
\* the data of a call: 1..MaxDataSize bytes of one value
Datas == {[i \in 1..k |-> b] : k \in 1..MaxDataSize, b \in DataBytes}
\* versions passed to format
Versions == 1..3
BufferSizes == 0..MaxDataSize
ListSizes == {1, MaxListFiles}
\* what a caller's buffer holds before a read
BufferFill == 238

Call(o, f, d, k) == [op |-> o, name |-> f, data |-> d, n |-> k]
NoCall == Call("none", <<>>, <<>>, 0)

Init ==
    /\ eeprom \in {[i \in 1..EepromSize |-> 0], [i \in 1..EepromSize |-> 255]}
    /\ call = NoCall
    /\ ret = 0
    /\ out = <<>>

FormatEEPROM(version) ==
    /\ call = NoCall
    /\ FormatDefined(eeprom, version)
    /\ LET r == EEPROM_FormatEEPROM(eeprom, version) IN
       /\ eeprom' = r.img
       /\ call' = Call("format", <<>>, <<>>, version)
       /\ ret' = r.ret
       /\ out' = <<>>

AddFile(filename, data) ==
    /\ call = NoCall
    /\ LET r == EEPROM_AddFile(eeprom, filename, data, Len(data)) IN
       /\ r.halts
       /\ eeprom' = r.img
       /\ call' = Call("add", filename, data, Len(data))
       /\ ret' = r.ret
       /\ out' = <<>>

WriteFile(filename, data) ==
    /\ call = NoCall
    /\ LET r == EEPROM_WriteFile(eeprom, filename, data, Len(data)) IN
       /\ r.halts
       /\ eeprom' = r.img
       /\ call' = Call("write", filename, data, Len(data))
       /\ ret' = r.ret
       /\ out' = <<>>

DeleteFile(filename) ==
    /\ call = NoCall
    /\ LET r == EEPROM_DeleteFile(eeprom, filename) IN
       /\ r.halts
       /\ eeprom' = r.img
       /\ call' = Call("delete", filename, <<>>, 0)
       /\ ret' = r.ret
       /\ out' = <<>>

ReadFile(filename, bufferSize) ==
    /\ call = NoCall
    /\ LET r == EEPROM_ReadFile(eeprom, filename,
                                [i \in 1..bufferSize |-> BufferFill], bufferSize) IN
       /\ r.halts
       /\ call' = Call("read", filename, <<>>, bufferSize)
       /\ ret' = r.ret
       /\ out' = r.buffer
       /\ UNCHANGED eeprom

ListFiles(maxFiles) ==
    /\ call = NoCall
    /\ LET r == EEPROM_ListFiles(eeprom, maxFiles) IN
       /\ call' = Call("list", <<>>, <<>>, maxFiles)
       /\ ret' = r.ret
       /\ out' = r.fileList
       /\ UNCHANGED eeprom

Return ==
    /\ call # NoCall
    /\ call' = NoCall
    /\ ret' = 0
    /\ out' = <<>>
    /\ UNCHANGED eeprom

Next ==
    \/ \E version \in Versions : FormatEEPROM(version)
    \/ \E filename \in Names, data \in Datas : AddFile(filename, data)
    \/ \E filename \in Names, data \in Datas : WriteFile(filename, data)
    \/ \E filename \in Names : DeleteFile(filename)
    \/ \E filename \in Names, bufferSize \in BufferSizes : ReadFile(filename, bufferSize)
    \/ \E maxFiles \in ListSizes : ListFiles(maxFiles)
    \/ Return

Spec == Init /\ [][Next]_vars

\* the images the program has reached
Idle == call = NoCall

(***************************************************************************)
(* The header state machine.  The image is also the raw header buffer the  *)
(* codec is given; a caller formats, builds, finalizes, damages and checks *)
(* headers on it, one call at a time.                                      *)
(***************************************************************************)
\* versions passed to format and init: the three known ones and both
\* neighbours
HeaderVersions == 0..4
\* buffer lengths passed to the codec: around sizeof(JEEPROMHeaderversion),
\* around the size of the 256-byte headers, and the size of the largest
Lens ==
    {HeaderVersionSize - 1, HeaderVersionSize,
     jeefs_header_size(2) - 1, jeefs_header_size(2), jeefs_header_size(1)}
\* offsets a caller damages: magic, version, boardversion
TamperOffsets == {0, 8, 50}
\* what is changed at the offset: the lowest bit, or every bit of the byte
Masks == {1, 255}

\* the field bytes of a header of version 1, 2, 3 whose CRC-32 is 0: four
\* bytes right before the CRC, all other fields zero
ZeroCrcFill(version) ==
    CASE version = 1 -> [offset |-> 504, bytes |-> <<126, 158, 238, 185>>]
      [] version = 2 -> [offset |-> 248, bytes |-> <<131, 159, 129, 214>>]
      [] version = 3 -> [offset |-> 248, bytes |-> <<142, 111, 246, 214>>]

\* what a caller writes to the fields of a header of the version: a board
\* version, or the bytes above
Fills(version) ==
    IF version \in 1..3
    THEN {[offset |-> 44, bytes |-> <<49, 46, 50>>], ZeroCrcFill(version)}
    ELSE {}

\* the buffer with the fields between the version byte and the CRC of the
\* header of the version zeroed and filled
Filled(data, version, fill) ==
    [i \in 1..Len(data) |->
        IF i <= 9 \/ i > jeefs_header_size(version) - 4 THEN data[i]
        ELSE IF i > fill.offset /\ i <= fill.offset + Len(fill.bytes)
        THEN fill.bytes[i - fill.offset]
        ELSE 0]

\* a header as a caller finalized it: its CRC verifies and its fields are
\* zero or one of the fills
Finalized(data) ==
    /\ jeefs_header_verify_crc(data, Len(data)) = 0
    /\ \E fill \in Fills(data[9]) \cup {[offset |-> 9, bytes |-> <<>>]} :
           data = Filled(data, data[9], fill)

HeaderInit ==
    /\ eeprom \in {[i \in 1..HeaderEepromSize |-> 0],
                   [i \in 1..HeaderEepromSize |-> 255]}
    /\ call = NoCall
    /\ ret = 0
    /\ out = <<>>

HeaderCheckConsistency ==
    /\ call = NoCall
    /\ call' = Call("check", <<>>, <<>>, 0)
    /\ ret' \in EEPROM_HeaderCheckConsistency(eeprom)
    /\ out' = <<>>
    /\ UNCHANGED eeprom

\* a buffer nobody has written to yet: every byte is the same
Untouched(data) == data = [i \in 1..Len(data) |-> data[1]]

\* the start of a generator run:
\* uint8_t buf[...]; memset(buf, 0, sizeof(buf)); jeefs_header_init(buf, len, version)
header_init(len, version) ==
    /\ call = NoCall
    /\ Untouched(eeprom)
    /\ LET r == jeefs_header_init([i \in 1..Len(eeprom) |-> 0], len, version) IN
       /\ eeprom' = r.data
       /\ call' = Call("init", <<>>, <<version>>, len)
       /\ ret' = r.ret
       /\ out' = <<>>

header_update_crc(len) ==
    /\ call = NoCall
    /\ LET r == jeefs_header_update_crc(eeprom, len) IN
       /\ eeprom' = r.data
       /\ call' = Call("update_crc", <<>>, <<>>, len)
       /\ ret' = r.ret
       /\ out' = <<>>

header_verify_crc(len) ==
    /\ call = NoCall
    /\ call' = Call("verify_crc", <<>>, <<>>, len)
    /\ ret' = jeefs_header_verify_crc(eeprom, len)
    /\ out' = <<>>
    /\ UNCHANGED eeprom

header_detect_version(data, len) ==
    /\ call = NoCall
    /\ call' = Call("detect_version", <<>>, <<Len(data)>>, len)
    /\ ret' = jeefs_header_detect_version(data, len)
    /\ out' = <<>>
    /\ UNCHANGED eeprom

\* the caller fills the fields of the header in the buffer
FillFields(fill) ==
    /\ call = NoCall
    /\ call' = Call("fill", <<>>, fill.bytes, fill.offset)
    /\ eeprom' = Filled(eeprom, eeprom[9], fill)
    /\ ret' = 0
    /\ out' = <<>>

\* a finalized header is damaged at one offset
Flip(offset, mask) ==
    /\ call = NoCall
    /\ Finalized(eeprom)
    /\ call' = Call("flip", <<>>, <<mask>>, offset)
    /\ eeprom' = [eeprom EXCEPT ![offset + 1] = Xor(@, mask)]
    /\ ret' = 0
    /\ out' = <<>>

HeaderNext ==
    \/ \E version \in HeaderVersions : FormatEEPROM(version)
    \/ HeaderCheckConsistency
    \/ \E len \in Lens, version \in HeaderVersions : header_init(len, version)
    \/ \E len \in Lens : header_update_crc(len)
    \/ \E len \in Lens : header_verify_crc(len)
    \/ \E data \in {NULL, eeprom}, len \in Lens : header_detect_version(data, len)
    \/ \E fill \in Fills(jeefs_header_detect_version(eeprom, Len(eeprom))) :
           FillFields(fill)
    \/ \E offset \in TamperOffsets, mask \in Masks : Flip(offset, mask)
    \/ Return

HeaderSpec == HeaderInit /\ [][HeaderNext]_vars

(***************************************************************************)
(* The read state machine: the file operations on a version 3 image with   *)
(* two names and data of up to MaxReadDataSize bytes.                      *)
(***************************************************************************)
ReadNames == {<<97>>, <<98>>}
ReadDatas == {[i \in 1..k |-> b] : k \in 1..MaxReadDataSize, b \in DataBytes}
ReadBufferSizes == 0..MaxReadDataSize

ReadNext ==
    \/ FormatEEPROM(3)
    \/ \E filename \in ReadNames, data \in ReadDatas : AddFile(filename, data)
    \/ \E filename \in ReadNames, data \in ReadDatas : WriteFile(filename, data)
    \/ \E filename \in ReadNames : DeleteFile(filename)
    \/ \E filename \in ReadNames, bufferSize \in ReadBufferSizes :
          ReadFile(filename, bufferSize)
    \/ Return

ReadSpec == Init /\ [][ReadNext]_vars

(***************************************************************************)
(* The set-header state machine: a caller formats the image, hands a       *)
(* header it built to EEPROM_SetHeader and checks the header.  The image   *)
(* is one that holds every header, or one that holds only the 256-byte     *)
(* headers.                                                                *)
(***************************************************************************)
\* a header of the version as a caller builds it: jeefs_header_init on a
\* zeroed buffer of the size of the header, then the fields
BuiltHeader(version, fill) ==
    LET size == jeefs_header_size(version)
    IN  Filled(jeefs_header_init([i \in 1..size |-> 0], size, version).data,
               version, fill)

\* the headers handed to EEPROM_SetHeader: built ones of version 1, 2, 3,
\* one with a damaged magic, one of version 0, one of version 4, and NULL
SetHeaders ==
    UNION {{BuiltHeader(v, fill) : fill \in Fills(v)} : v \in 1..3}
        \cup {[FormatHeaders[2] EXCEPT ![1] = 0],
              [FormatHeaders[2] EXCEPT ![9] = 0],
              [FormatHeaders[2] EXCEPT ![9] = 4],
              NULL}

SetHeaderInit ==
    /\ eeprom \in {[i \in 1..size |-> b] : size \in {EepromSize, HeaderEepromSize},
                                          b \in {0, 255}}
    /\ call = NoCall
    /\ ret = 0
    /\ out = <<>>

SetHeader(header) ==
    /\ call = NoCall
    /\ LET r == EEPROM_SetHeader(eeprom, header) IN
       /\ eeprom' = r.img
       /\ call' = Call("set_header", <<>>, header, 0)
       /\ ret' = r.ret
       /\ out' = <<>>

SetHeaderNext ==
    \/ \E version \in Versions : FormatEEPROM(version)
    \/ \E header \in SetHeaders : SetHeader(header)
    \/ HeaderCheckConsistency
    \/ Return

SetHeaderSpec == SetHeaderInit /\ [][SetHeaderNext]_vars

(***************************************************************************)
(* The name state machine: the file operations on a version 2 image with   *)
(* the names and data at the edges of what the API validates.              *)
(***************************************************************************)
\* a name of exactly FILE_NAME_LENGTH characters ('n')
LongestName == [i \in 1..FILE_NAME_LENGTH |-> 110]
\* a name of one character more
TooLongName == [i \in 1..(FILE_NAME_LENGTH + 1) |-> 110]
\* the names of the callers: "", "a", 15 and 16 characters
EdgeNames == {<<>>, <<97>>, LongestName, TooLongName}
\* the data of the callers: none (size 0), one byte
EdgeDatas == {<<>>, <<0>>, <<97>>}
EdgeBufferSizes == {0, 1}

NameNext ==
    \/ FormatEEPROM(2)
    \/ \E filename \in EdgeNames, data \in EdgeDatas : AddFile(filename, data)
    \/ \E filename \in EdgeNames, data \in EdgeDatas : WriteFile(filename, data)
    \/ \E filename \in EdgeNames : DeleteFile(filename)
    \/ \E filename \in EdgeNames, bufferSize \in EdgeBufferSizes :
          ReadFile(filename, bufferSize)
    \/ \E maxFiles \in ListSizes : ListFiles(maxFiles)
    \/ Return

NameSpec == Init /\ [][NameNext]_vars

(***************************************************************************)
(* The large-file state machine: adds of files whose size is around        *)
(* INT16_MAX on an image that holds them.                                  *)
(***************************************************************************)
\* the data sizes of the callers: one byte, and the sizes around INT16_MAX
BigDataSizes == {1, INT16_MAX - 1, INT16_MAX, INT16_MAX + 1}
BigDatas == {[i \in 1..k |-> 0] : k \in BigDataSizes}

BigInit ==
    /\ eeprom \in {[i \in 1..BigEepromSize |-> 0], [i \in 1..BigEepromSize |-> 255]}
    /\ call = NoCall
    /\ ret = 0
    /\ out = <<>>

\* the call record of an add keeps the size of the data, not the data
AddBigFile(filename, data) ==
    /\ call = NoCall
    /\ LET r == EEPROM_AddFile(eeprom, filename, data, Len(data)) IN
       /\ r.halts
       /\ eeprom' = r.img
       /\ call' = Call("add", filename, <<>>, Len(data))
       /\ ret' = r.ret
       /\ out' = <<>>

BigNext ==
    \/ FormatEEPROM(2)
    \/ \E filename \in ReadNames, data \in BigDatas : AddBigFile(filename, data)
    \/ \E filename \in ReadNames, bufferSize \in BufferSizes : ReadFile(filename, bufferSize)
    \/ \E maxFiles \in ListSizes : ListFiles(maxFiles)
    \/ Return

BigSpec == BigInit /\ [][BigNext]_vars

(***************************************************************************)
(* The write-log state machine: a caller formats, adds and deletes, and    *)
(* every add hands back the calls of eeprom_write it made, in their order. *)
(***************************************************************************)
AddFileWrites(filename, data) ==
    /\ call = NoCall
    /\ LET r == EEPROM_AddFile(eeprom, filename, data, Len(data))
           writes == AddFile_writes(eeprom, filename, data, Len(data))
       IN
       /\ r.halts
       /\ eeprom' = ApplyWrites(eeprom, writes)
       /\ call' = Call("add", filename, data, Len(data))
       /\ ret' = r.ret
       /\ out' = writes

WriteLogNext ==
    \/ \E version \in Versions : FormatEEPROM(version)
    \/ \E filename \in Names, data \in Datas : AddFileWrites(filename, data)
    \/ \E filename \in Names : DeleteFile(filename)
    \/ Return

WriteLogSpec == Init /\ [][WriteLogNext]_vars

(***************************************************************************)
(* The backend state machine: a caller reads and writes count bytes at an  *)
(* offset of a small image, through the in-memory backend or the file      *)
(* backend.                                                                *)
(***************************************************************************)
Counts == 0..(BackendSize + 1)
Offsets == 0..(BackendSize + 1)
\* what a caller writes: count bytes of one value
WriteByte == 97

BackendCall(o, buf, count, offset) ==
    [op |-> o, name |-> <<>>, data |-> buf, n |-> count, offset |-> offset]

BackendInit ==
    /\ eeprom \in {[i \in 1..BackendSize |-> 0], [i \in 1..BackendSize |-> 255]}
    /\ call = NoCall
    /\ ret = 0
    /\ out = <<>>

MemoryRead(count, offset) ==
    /\ call = NoCall
    /\ LET r == eeprom_read(eeprom, count, offset) IN
       /\ call' = BackendCall("eeprom_read", <<>>, count, offset)
       /\ ret' = r.ret
       /\ out' = r.buf
       /\ UNCHANGED eeprom

MemoryWrite(count, offset) ==
    /\ call = NoCall
    /\ LET buf == [i \in 1..count |-> WriteByte] IN
       /\ eeprom' = eeprom_write(eeprom, buf, count, offset)
       /\ call' = BackendCall("eeprom_write", buf, count, offset)
       /\ ret' = eeprom_write_ret(eeprom, count, offset)
       /\ out' = <<>>

FileRead(count, offset) ==
    /\ call = NoCall
    /\ LET r == file_eeprom_read(eeprom, count, offset) IN
       /\ call' = BackendCall("file_eeprom_read", <<>>, count, offset)
       /\ ret' = r.ret
       /\ out' = r.buf
       /\ UNCHANGED eeprom

FileWrite(count, offset) ==
    /\ call = NoCall
    /\ LET buf == [i \in 1..count |-> WriteByte]
           r == file_eeprom_write(eeprom, eeprom_size(eeprom), buf, count, offset)
       IN
       /\ eeprom' = r.img
       /\ call' = BackendCall("file_eeprom_write", buf, count, offset)
       /\ ret' = r.ret
       /\ out' = <<>>

BackendNext ==
    \/ \E count \in Counts, offset \in Offsets : MemoryRead(count, offset)
    \/ \E count \in Counts, offset \in Offsets : MemoryWrite(count, offset)
    \/ \E count \in Counts, offset \in Offsets : FileRead(count, offset)
    \/ \E count \in Counts, offset \in Offsets : FileWrite(count, offset)
    \/ Return

BackendSpec == BackendInit /\ [][BackendNext]_vars

(***************************************************************************)
(* The walk state machine: the file operations on an image that takes      *)
(* three records, with data of one byte, data of two bytes that are also   *)
(* the character of the name "a", and data of WalkDataSize bytes that end  *)
(* with the two bytes of a little-endian offset.                           *)
(***************************************************************************)
\* WalkDataSize bytes: zeros, then the offset of the first record of a
\* version 2 image as a caller would store a 16-bit number
OffsetData ==
    [i \in 1..(WalkDataSize - 2) |-> 0] \o Le16Bytes(jeefs_header_size(2))

WalkDatas == {<<0>>, <<97, 97>>, OffsetData}

WalkInit ==
    /\ eeprom \in {[i \in 1..WalkEepromSize |-> 0], [i \in 1..WalkEepromSize |-> 255]}
    /\ call = NoCall
    /\ ret = 0
    /\ out = <<>>

WalkNext ==
    \/ FormatEEPROM(2)
    \/ \E filename \in Names, data \in WalkDatas : AddFile(filename, data)
    \/ \E filename \in Names : DeleteFile(filename)
    \/ \E filename \in Names : ReadFile(filename, WalkDataSize)
    \/ \E maxFiles \in ListSizes : ListFiles(maxFiles)
    \/ Return

WalkSpec == WalkInit /\ [][WalkNext]_vars

(***************************************************************************)
(* The no-header state machine: the file operations on images that were    *)
(* never formatted, or that hold a file behind a header whose magic or     *)
(* version was overwritten.  Nothing formats the image.                    *)
(***************************************************************************)
\* a version 2 image with the file "a", as format and add leave it
ImageWithFile ==
    EEPROM_AddFile(EEPROM_FormatEEPROM([i \in 1..EepromSize |-> 0], 2).img,
                   <<97>>, <<0>>, 1).img

\* versions no header has
UnknownVersions == {0, 4, 255}

NoHeaderInit ==
    /\ eeprom \in {[i \in 1..EepromSize |-> 0], [i \in 1..EepromSize |-> 255],
                   [ImageWithFile EXCEPT ![1] = 0]}
                      \cup {[ImageWithFile EXCEPT ![9] = v] : v \in UnknownVersions}
    /\ call = NoCall
    /\ ret = 0
    /\ out = <<>>

NoHeaderNext ==
    \/ \E filename \in Names, data \in Datas : AddFile(filename, data)
    \/ \E filename \in Names, data \in Datas : WriteFile(filename, data)
    \/ \E filename \in Names : DeleteFile(filename)
    \/ \E filename \in Names, bufferSize \in BufferSizes : ReadFile(filename, bufferSize)
    \/ \E maxFiles \in ListSizes : ListFiles(maxFiles)
    \/ Return

NoHeaderSpec == NoHeaderInit /\ [][NoHeaderNext]_vars

(***************************************************************************)
(* The footprint state machine: on the image that is also the raw header   *)
(* buffer, a caller formats, adds a file, initializes and finalizes a      *)
(* header in place, and reads: list, read, get_header, consistency check.  *)
(***************************************************************************)
\* jeefs_header_init on the buffer as it is
header_init_inplace(len, version) ==
    /\ call = NoCall
    /\ LET r == jeefs_header_init(eeprom, len, version) IN
       /\ eeprom' = r.data
       /\ call' = Call("init", <<>>, <<version>>, len)
       /\ ret' = r.ret
       /\ out' = <<>>

GetHeader(size) ==
    /\ call = NoCall
    /\ LET r == EEPROM_GetHeader(eeprom, size) IN
       /\ call' = Call("get_header", <<>>, <<>>, size)
       /\ ret' = r.ret
       /\ out' = r.header
       /\ UNCHANGED eeprom

FootprintNext ==
    \/ \E version \in Versions : FormatEEPROM(version)
    \/ \E filename \in ReadNames : AddFile(filename, <<97>>)
    \/ \E len \in Lens, version \in HeaderVersions : header_init_inplace(len, version)
    \/ \E len \in Lens : header_update_crc(len)
    \/ \E filename \in ReadNames : ReadFile(filename, 1)
    \/ \E maxFiles \in ListSizes : ListFiles(maxFiles)
    \/ \E size \in Lens : GetHeader(size)
    \/ HeaderCheckConsistency
    \/ Return

FootprintSpec == HeaderInit /\ [][FootprintNext]_vars

(***************************************************************************)
(* What the claims speak about.                                            *)
(***************************************************************************)
\* a buffer large enough for every file a caller stored
BigBuffer == MaxDataSize + 1

\* read(n) into a fresh buffer of bufferSize bytes
Read(img, filename, bufferSize) ==
    EEPROM_ReadFile(img, filename, [i \in 1..bufferSize |-> BufferFill], bufferSize)

\* a file named n is stored: find returns "found"
Stored(img, filename) ==
    LET f == EEPROM_FindFile(img, filename) IN f.halts /\ f.ret = 1

\* the names list(maxFiles) hands back, as strings
ListedNames(img, maxFiles) ==
    LET l == EEPROM_ListFiles(img, maxFiles).fileList
    IN  [i \in 1..Len(l) |-> CStr(l[i], FILE_NAME_LENGTH, 1)]

\* the header stored at an offset
HeaderAt(img, address) == FileHeaderOf(eeprom_read(img, FileHeaderSize, address).buf)

\* the offsets the list walk visits: from files_start along nextFileAddress
\* until it is 0 or the header cannot be read
RECURSIVE WalkFrom(_, _, _)
WalkFrom(img, address, seen) ==
    IF address \in seen \/ eeprom_read(img, FileHeaderSize, address).ret # FileHeaderSize
    THEN <<>>
    ELSE LET next == HeaderAt(img, address).nextFileAddress IN
         IF next = 0 THEN <<address>>
         ELSE <<address>> \o WalkFrom(img, next, seen \cup {address})

Walk(img) ==
    LET headerSize == EEPROM_GetHeaderSize_read(img)
    IN  IF headerSize < 0 THEN <<>> ELSE WalkFrom(img, headerSize, {})

\* a sequence without its entries equal to x
RECURSIVE Without(_, _)
Without(seq, x) ==
    IF seq = <<>> THEN <<>>
    ELSE IF Head(seq) = x THEN Without(Tail(seq), x)
    ELSE <<Head(seq)>> \o Without(Tail(seq), x)

\* the records stored on the image by the rules of the format (F5): the
\* walk from files_start that ends at nextFileAddress = 0 or at a slot whose
\* name[0] or dataSize is empty
RECURSIVE StoredFrom(_, _, _)
StoredFrom(img, address, seen) ==
    IF address \in seen \/ eeprom_read(img, FileHeaderSize, address).ret # FileHeaderSize
    THEN <<>>
    ELSE LET h == HeaderAt(img, address) IN
         IF EEPROM_ByteIsEmpty(h.name[1]) \/ EEPROM_WordIsEmpty(h.dataSize) THEN <<>>
         ELSE IF h.nextFileAddress = 0 THEN <<[address |-> address, header |-> h]>>
         ELSE <<[address |-> address, header |-> h]>>
                  \o StoredFrom(img, h.nextFileAddress, seen \cup {address})

StoredRecords(img) ==
    LET headerSize == EEPROM_GetHeaderSize_read(img)
    IN  IF headerSize < 0 THEN <<>> ELSE StoredFrom(img, headerSize, {})

StoredNames(img) ==
    [i \in 1..Len(StoredRecords(img)) |->
        CStr(StoredRecords(img)[i].header.name, FILE_NAME_LENGTH, 1)]

RECURSIVE SumSeq(_)
SumSeq(seq) == IF seq = <<>> THEN 0 ELSE Head(seq) + SumSeq(Tail(seq))

\* bytes taken by the header and the stored records
UsedBytes(img) ==
    EEPROM_GetHeaderSize_read(img)
        + SumSeq([i \in 1..Len(StoredRecords(img)) |->
                     FileHeaderSize + StoredRecords(img)[i].header.dataSize])

HeaderValid(img) == EEPROM_GetHeaderSize_read(img) >= 0

C3_DeleteRemoves ==
    [][(call'.op = "delete" /\ Stored(eeprom, call'.name)) =>
          /\ ret' = 1
          /\ Read(eeprom', call'.name, BigBuffer).ret = FILENOTFOUND
          /\ \A maxFiles \in ListSizes :
                \A i \in DOMAIN ListedNames(eeprom', maxFiles) :
                    ListedNames(eeprom', maxFiles)[i] # call'.name]_vars

C2_DeletePreservesOthers ==
    [][(call'.op = "delete" /\ ret' = 1) =>
          /\ \A m \in Names \ {call'.name} :
                Stored(eeprom, m) =>
                    /\ Stored(eeprom', m)
                    /\ Read(eeprom', m, BigBuffer) = Read(eeprom, m, BigBuffer)
          /\ ListedNames(eeprom', MaxListFiles) =
                Without(ListedNames(eeprom, MaxListFiles), call'.name)]_vars

\* C4: on a formatted image, list(max) with max at least the number of
\* stored files returns exactly the stored names in record order, and its
\* return value is their number.
C4_ListExact ==
    HeaderValid(eeprom) =>
        \A maxFiles \in ListSizes :
            maxFiles >= Len(StoredNames(eeprom)) =>
                /\ ListedNames(eeprom, maxFiles) = StoredNames(eeprom)
                /\ EEPROM_ListFiles(eeprom, maxFiles).ret = Len(StoredNames(eeprom))

\* C5: every record the list walk reaches at offset A with a non-zero
\* nextFileAddress has nextFileAddress = A + 24 + dataSize (F3).
C5_ListContiguity ==
    \A i \in DOMAIN Walk(eeprom) :
        LET A == Walk(eeprom)[i]
            h == HeaderAt(eeprom, A)
        IN  h.nextFileAddress # 0 =>
                h.nextFileAddress = A + FileHeaderSize + h.dataSize

\* C6: add of a new name succeeds if and only if
\* files_start + sum(24 + size_i) + 24 + new_size <= image_size, and
\* otherwise fails with NOTENOUGHSPACE.
C6_CapacityBound ==
    [][(call'.op = "add" /\ HeaderValid(eeprom) /\ ~Stored(eeprom, call'.name)) =>
          IF UsedBytes(eeprom) + FileHeaderSize + Len(call'.data) <= eeprom_size(eeprom)
          THEN ret' = Len(call'.data)
          ELSE ret' = NOTENOUGHSPACE]_vars

\* C8: a successful write of a different size leaves n readable with the
\* new data and listed exactly once, and every other file reads back as
\* before.
C8_DifferentSizeWrite ==
    [][(/\ call'.op = "write"
        /\ Stored(eeprom, call'.name)
        /\ EEPROM_FindFile(eeprom, call'.name).header.dataSize # Len(call'.data)
        /\ ret' > 0) =>
          /\ LET r == Read(eeprom', call'.name, BigBuffer) IN
             r.ret = Len(call'.data)
             /\ SubSeq(r.buffer, 1, Len(call'.data)) = call'.data
          /\ Cardinality({i \in DOMAIN ListedNames(eeprom', MaxListFiles) :
                 ListedNames(eeprom', MaxListFiles)[i] = call'.name}) = 1
          /\ \A m \in Names \ {call'.name} :
                Stored(eeprom, m) =>
                    Read(eeprom', m, BigBuffer) = Read(eeprom, m, BigBuffer)]_vars

\* C9: a write on a stored file that returns an error leaves the image
\* unchanged.
C9_FailedWriteUnchanged ==
    [][(call'.op = "write" /\ Stored(eeprom, call'.name) /\ ret' <= 0) =>
          eeprom' = eeprom]_vars

\* a search for the name ends without a file of that name
Missing(img, filename) ==
    LET f == EEPROM_FindFile(img, filename) IN f.halts /\ f.ret # 1

C12_ReadBufferSize ==
    [][(call'.op = "read" /\ Stored(eeprom, call'.name)) =>
          LET s == EEPROM_FindFile(eeprom, call'.name).header.dataSize IN
          IF call'.n < s \/ call'.n = 0
          THEN /\ ret' = BUFFERNOTVALID
               /\ out' = [i \in 1..call'.n |-> BufferFill]
          ELSE ret' = s]_vars

(***************************************************************************)
(* What the header claims speak about.                                     *)
(***************************************************************************)
\* the CRC word stored in a header of the version
StoredCrc(data, version) ==
    SubSeq(data, jeefs_header_size(version) - 3, jeefs_header_size(version))

\* the buffer starts with the magic and a version byte of 1, 2 or 3
WellFormed(data) == SubSeq(data, 1, MAGIC_LENGTH) = MAGIC /\ data[9] \in 1..3

\* magic, version, a stored CRC that is not 0 and is the CRC of the bytes
\* before it
HeaderOk(data) ==
    /\ WellFormed(data)
    /\ StoredCrc(data, data[9]) # <<0, 0, 0, 0>>
    /\ StoredCrc(data, data[9]) =
           calculateCRC32(SubSeq(data, 1, jeefs_header_size(data[9]) - 4))

\* C13: after format(v) with v in {1, 2, 3}, whatever the image held, the
\* header consistency check succeeds, byte 8 is v, every header byte other
\* than magic, version and CRC is zero, and every byte from the header size
\* to the end of the image is 0x00.
C13_FormatPostcondition ==
    [][(call'.op = "format" /\ call'.n \in 1..3) =>
          /\ ret' = 0
          /\ EEPROM_HeaderCheckConsistency(eeprom') = {0}
          /\ eeprom'[9] = call'.n
          /\ \A i \in 10..(jeefs_header_size(call'.n) - 4) : eeprom'[i] = 0
          /\ \A i \in (jeefs_header_size(call'.n) + 1)..Len(eeprom') :
                eeprom'[i] = 0]_vars

\* a format with version 1 has returned on the image of 516 bytes
C13_Witness ==
    /\ call.op = "format"
    /\ call.n = 1
    /\ ret = 0
    /\ Len(eeprom) > jeefs_header_size(1)

\* C14: format with a version outside {1, 2, 3} returns an error and leaves
\* every byte of the image unchanged.
C14_FormatUnknownVersion ==
    [][(call'.op = "format" /\ call'.n \notin 1..3) =>
          (ret' < 0 /\ eeprom' = eeprom)]_vars

\* a format with an unknown version has returned on an image with a header
C14_Witness ==
    /\ call.op = "format"
    /\ call.n \notin 1..3
    /\ ret < 0
    /\ WellFormed(eeprom)

C16_HeaderRoundTrip ==
    [][(call'.op = "update_crc" /\ ret' = 0) =>
          jeefs_header_verify_crc(eeprom', call'.n) = 0]_vars

\* the header in the buffer is whole and its stored CRC word is 0
StoredCrcZero(data, len) ==
    /\ len >= HeaderVersionSize
    /\ WellFormed(data)
    /\ len >= jeefs_header_size(data[9])
    /\ StoredCrc(data, data[9]) = <<0, 0, 0, 0>>

\* C17: verify_crc and the header consistency check fail whenever the
\* stored CRC word of the header is 0, whatever the CRC of the bytes
\* before it is.
C17_ZeroCrcRejected ==
    [][/\ (call'.op = "verify_crc" /\ StoredCrcZero(eeprom, call'.n)) => ret' = -1
       /\ (call'.op = "check" /\ StoredCrcZero(eeprom, Len(eeprom))) => ret' = -1]_vars

\* verify_crc has failed on a header whose stored CRC is 0 and whose
\* computed CRC is 0 as well
C17_Witness ==
    /\ call.op = "verify_crc"
    /\ ret = -1
    /\ StoredCrcZero(eeprom, call.n)
    /\ header_crc32(eeprom, jeefs_header_size(eeprom[9]) - 4) = <<0, 0, 0, 0>>

C19_DetectVersion ==
    call.op = "detect_version" =>
        LET data == IF call.data = <<0>> THEN NULL ELSE eeprom
            len  == call.n
        IN  /\ ret = IF data # NULL /\ len >= 12 /\ WellFormed(data)
                     THEN data[9] ELSE -1
            /\ data # NULL =>
                  ret = jeefs_header_detect_version(
                            SubSeq(data, 1, IF len < 12 THEN len ELSE 12), len)

\* detect_version has returned the version of a header
C19_Witness ==
    /\ call.op = "detect_version"
    /\ ret \in 1..3
    /\ call.n = HeaderVersionSize

\* the failure of the taxonomy a buffer and length fall under
CodecFailure(data, len) ==
    IF len < HeaderVersionSize THEN "BufferTooShort"
    ELSE IF SubSeq(data, 1, MAGIC_LENGTH) # MAGIC THEN "BadMagic"
    ELSE IF data[9] \notin 1..3 THEN "UnknownVersion"
    ELSE IF len < jeefs_header_size(data[9]) THEN "BufferTooShort"
    ELSE IF HeaderOk(data) THEN "ok"
    ELSE "BadCrc"

C21_SetHeader ==
    [][(/\ call'.op = "set_header"
        /\ call'.data # NULL
        /\ WellFormed(call'.data)
        /\ jeefs_header_size(call'.data[9]) <= Len(eeprom)) =>
          LET size == jeefs_header_size(call'.data[9]) IN
          /\ ret' # EEPROM_SetHeader(eeprom, [call'.data EXCEPT ![1] = 0]).ret
          /\ ret' # EEPROM_SetHeader(eeprom, [call'.data EXCEPT ![9] = 0]).ret
          /\ SubSeq(eeprom', 1, size - 4) = SubSeq(call'.data, 1, size - 4)
          /\ StoredCrc(eeprom', call'.data[9]) =
                 calculateCRC32(SubSeq(call'.data, 1, size - 4))
          /\ EEPROM_HeaderCheckConsistency(eeprom') = {0}]_vars

\* fileList[i] read as a C string, the way the callers of the list read it
\* (strcmp, std::string): an entry of FILE_NAME_LENGTH characters has no
\* terminator and the string goes on in the next entry; past the last
\* written entry the bytes were never written, so the string either ends
\* there or goes on
RECURSIVE EntryStrings(_, _)
EntryStrings(fileList, i) ==
    IF i > Len(fileList) THEN {<<>>, <<63>>}
    ELSE LET s == CStr(fileList[i], FILE_NAME_LENGTH, 1) IN
         IF Len(s) < FILE_NAME_LENGTH THEN {s}
         ELSE {s \o t : t \in EntryStrings(fileList, i + 1)}

\* C22: an add of a name of exactly 15 characters succeeds where the record
\* fits, and the list then hands that same name back; add, read, write and
\* delete of a longer name fail with FILENAMETOOLONG and leave the image
\* unchanged.
C22_NameLength ==
    [][/\ (/\ call'.op = "add"
           /\ Len(call'.name) = FILE_NAME_LENGTH
           /\ call'.n > 0
           /\ eeprom = FormatBuffer(Len(eeprom), 2)) =>
             /\ ret' = call'.n
             /\ LET l == EEPROM_ListFiles(eeprom', MaxListFiles).fileList
                IN  \E i \in 1..Len(l) : EntryStrings(l, i) = {call'.name}
       /\ (/\ call'.op \in {"add", "read", "write", "delete"}
           /\ Len(call'.name) > FILE_NAME_LENGTH) =>
             (ret' = FILENAMETOOLONG /\ eeprom' = eeprom)]_vars

\* C23: an add with an empty name, or with no data (size 0), fails with an
\* error and leaves the image unchanged, so that it writes no record with
\* an empty name or a dataSize of 0.
C23_EmptyRejected ==
    [][(call'.op = "add" /\ (call'.name = <<>> \/ call'.n = 0)) =>
          /\ ret' < 0
          /\ eeprom' = eeprom]_vars

\* C24: a successful add returns exactly dataSize, a positive count: never
\* 0 and never a negative value.  An add has succeeded when the record of
\* the name with the dataSize of the call is stored afterwards and was not
\* before.
C24_AddReturnsDataSize ==
    [][(/\ call'.op = "add"
        /\ ~Stored(eeprom, call'.name)
        /\ Stored(eeprom', call'.name)
        /\ EEPROM_FindFile(eeprom', call'.name).header.dataSize = call'.n) =>
          (ret' = call'.n /\ ret' > 0)]_vars

\* C25: an add that returns NOTENOUGHSPACE leaves every byte of the image
\* unchanged: the nextFileAddress of the last record is not rewritten.
C25_NoSpaceUnchanged ==
    [][(call'.op = "add" /\ ret' = NOTENOUGHSPACE) => eeprom' = eeprom]_vars

\* an add has been refused for space on an image whose last record would
\* have been relinked
C25_Witness ==
    /\ call.op = "add"
    /\ ret = NOTENOUGHSPACE
    /\ HeaderValid(eeprom)
    /\ Len(StoredRecords(eeprom)) >= 1
    /\ StoredRecords(eeprom)[Len(StoredRecords(eeprom))].header.nextFileAddress = 0

\* the record of the call add(filename, data) with nextFileAddress 0 is at
\* the offset
PlacedAt(img, address, filename, dataSize) ==
    /\ eeprom_read(img, FileHeaderSize, address).ret = FileHeaderSize
    /\ CStr(HeaderAt(img, address).name, FILE_NAME_LENGTH, 1) = filename
    /\ HeaderAt(img, address).dataSize = dataSize
    /\ HeaderAt(img, address).nextFileAddress = 0

\* C26: a successful add on an image that holds no files writes the new
\* record at header_size(v); on an image that holds files it writes it at
\* last.offset + 24 + last.dataSize of the last record of the list, sets the
\* nextFileAddress of that record to this offset, and the nextFileAddress of
\* the new record is 0.
C26_AddPlacement ==
    [][(call'.op = "add" /\ ret' > 0 /\ HeaderValid(eeprom)) =>
          LET recs == StoredRecords(eeprom)
              last == recs[Len(recs)]
              A == last.address + FileHeaderSize + last.header.dataSize
          IN  IF recs = <<>>
              THEN PlacedAt(eeprom', EEPROM_GetHeaderSize_read(eeprom),
                            call'.name, call'.n)
              ELSE /\ PlacedAt(eeprom', A, call'.name, call'.n)
                   /\ HeaderAt(eeprom', last.address).nextFileAddress = A]_vars

\* the slot at the offset is empty by the rule of F5
EmptySlot(img, address) ==
    \/ EEPROM_ByteIsEmpty(HeaderAt(img, address).name[1])
    \/ EEPROM_WordIsEmpty(HeaderAt(img, address).dataSize)

\* C27: the list never reports as a file a slot whose name[0] is 0x00 or
\* 0xFF or whose dataSize is 0x0000 or 0xFFFF; on a freshly formatted image
\* it returns 0 entries.
C27_EmptySlotsEndWalk ==
    [][(call'.op = "list" /\ HeaderValid(eeprom)) =>
          /\ \A i \in 1..ret' :
                i <= Len(Walk(eeprom)) => ~EmptySlot(eeprom, Walk(eeprom)[i])
          /\ (\E version \in Versions :
                  eeprom = FormatBuffer(Len(eeprom), version)) => ret' = 0]_vars

\* the offsets of the nextFileAddress fields of the stored records
NextPointerOffsets(img) ==
    UNION {{StoredRecords(img)[i].address + FileHeaderSize - 2,
            StoredRecords(img)[i].address + FileHeaderSize - 1} :
               i \in 1..Len(StoredRecords(img))}

\* C28: after the delete of the record at offset A, with
\* shift = 24 + dataSize, every byte at an offset x in [A, image_size - shift)
\* is the byte that was at x + shift, every byte in
\* [image_size - shift, image_size) is 0x00 and every byte below A is
\* unchanged, the nextFileAddress fields of the records aside.
C28_CompactionExact ==
    [][(call'.op = "delete" /\ ret' = 1) =>
          LET f == EEPROM_FindFile(eeprom, call'.name)
              A == f.address
              shift == FileHeaderSize + f.header.dataSize
              size == Len(eeprom)
              pointers == NextPointerOffsets(eeprom)
          IN  /\ \A x \in A..(size - shift - 1) :
                    (x + shift) \notin pointers => eeprom'[x + 1] = eeprom[x + shift + 1]
              /\ \A x \in (size - shift)..(size - 1) : eeprom'[x + 1] = 0
              /\ \A x \in 0..(A - 1) :
                    x \notin pointers => eeprom'[x + 1] = eeprom[x + 1]]_vars

\* the image is a freshly formatted one to which one file of the name was
\* added
FreshAdd(img, filename) ==
    \E version \in Versions, data \in Datas :
        /\ jeefs_header_size(version) <= Len(img)
        /\ LET r == EEPROM_AddFile(FormatBuffer(Len(img), version), filename,
                                   data, Len(data))
           IN  r.ret > 0 /\ img = r.img

C30_RecordsInside ==
    HeaderValid(eeprom) =>
        \A i \in DOMAIN Walk(eeprom) :
            Walk(eeprom)[i] + FileHeaderSize
                + HeaderAt(eeprom, Walk(eeprom)[i]).dataSize <= Len(eeprom)


\* the data bytes of the record at an offset: the dataSize bytes after its
\* header
DataAt(img, address) ==
    eeprom_read(img, HeaderAt(img, address).dataSize, address + FileHeaderSize).buf

\* C31: every record the list walk reaches stores, in its crc32 field, the
\* CRC32 of the dataSize data bytes that follow its header.
C31_DataCrc ==
    HeaderValid(eeprom) =>
        \A i \in DOMAIN Walk(eeprom) :
            HeaderAt(eeprom, Walk(eeprom)[i]).crc32
                = calculateCRC32(DataAt(eeprom, Walk(eeprom)[i]))


\* the record find reaches for a name is a stored file by the rules of the
\* format: its name[0] and its dataSize are not empty
StoredFile(img, filename) ==
    LET f == EEPROM_FindFile(img, filename) IN
    /\ f.halts /\ f.ret = 1
    /\ ~EEPROM_ByteIsEmpty(f.header.name[1])
    /\ ~EEPROM_WordIsEmpty(f.header.dataSize)

\* the crc32 field of the record of a name differs from the CRC32 of its data
CrcMismatch(img, filename) ==
    LET f == EEPROM_FindFile(img, filename) IN
    f.header.crc32 # calculateCRC32(DataAt(img, f.address))

\* C32: a read of a stored file into a buffer that takes it returns dataSize
\* and hands back the dataSize data bytes of the record, whether or not the
\* crc32 field of the record equals the CRC32 of those bytes.
C32_ReadIgnoresCrc ==
    (/\ call.op = "read"
     /\ StoredFile(eeprom, call.name)
     /\ EEPROM_FindFile(eeprom, call.name).header.dataSize <= call.n) =>
        LET f == EEPROM_FindFile(eeprom, call.name) IN
        /\ ret = f.header.dataSize
        /\ SubSeq(out, 1, f.header.dataSize) = DataAt(eeprom, f.address)

\* a read has returned the data of a file whose stored crc32 is not the
\* CRC32 of its data
C32_Witness ==
    /\ call.op = "read"
    /\ StoredFile(eeprom, call.name)
    /\ CrcMismatch(eeprom, call.name)
    /\ ret = EEPROM_FindFile(eeprom, call.name).header.dataSize


\* the writes of an add are those of EEPROM_AddFile: applied in their order
\* they leave the image the call leaves
AddWritesExact ==
    [][call'.op = "add" =>
          eeprom' = EEPROM_AddFile(eeprom, call'.name, call'.data, call'.n).img]_vars

\* C33: a successful add onto a list that is not empty makes three backend
\* writes and no other: first the header of a stored record whose
\* nextFileAddress becomes the offset of the new record, then the new header
\* at that offset, then the data right after it.
C33_AddWriteOrder ==
    [][(call'.op = "add" /\ ret' > 0 /\ StoredRecords(eeprom) # <<>>) =>
          /\ Len(out') = 3
          /\ \E i \in 1..Len(StoredRecords(eeprom)) :
                 out'[1].offset = StoredRecords(eeprom)[i].address
          /\ out'[1].count = FileHeaderSize
          /\ FileHeaderOf(out'[1].buf).nextFileAddress = out'[2].offset
          /\ out'[2].count = FileHeaderSize
          /\ CStr(FileHeaderOf(out'[2].buf).name, FILE_NAME_LENGTH, 1) = call'.name
          /\ FileHeaderOf(out'[2].buf).nextFileAddress = 0
          /\ out'[3].offset = out'[2].offset + FileHeaderSize
          /\ out'[3].buf = call'.data]_vars


\* the record at files_start, where every walk starts, is a stored record
\* whose non-zero nextFileAddress is not its offset + 24 + dataSize or leaves
\* no room for a record header inside the image
CorruptLink(img) ==
    /\ HeaderValid(img)
    /\ LET A == EEPROM_GetHeaderSize_read(img)
           h == HeaderAt(img, A)
       IN  /\ ~EEPROM_ByteIsEmpty(h.name[1])
           /\ ~EEPROM_WordIsEmpty(h.dataSize)
           /\ h.nextFileAddress # 0
           /\ \/ h.nextFileAddress # A + FileHeaderSize + h.dataSize
              \/ h.nextFileAddress + FileHeaderSize > Len(img)

\* C34: an operation that walks the list of an image whose first record has
\* a non-zero nextFileAddress that violates contiguity or points outside the
\* image fails with EEPROMCORRUPTED.
C34_CorruptionReported ==
    [][(/\ call'.op \in {"list", "read", "write", "add", "delete"}
        /\ (call'.op = "read" => call'.n > 0)
        /\ CorruptLink(eeprom)) =>
          ret' = EEPROMCORRUPTED]_vars


\* the bytes of the image at offset .. offset + count - 1
Bytes(img, count, offset) == [i \in 1..count |-> img[offset + i]]

\* C35: a backend read or write of count bytes at an offset with
\* offset + count <= size returns count and transfers exactly these bytes
\* (from the image to the caller, or from the caller to the image, the other
\* bytes of the image unchanged); with offset + count > size it returns a
\* negative error, hands nothing back and changes no byte of the image.
C35_BackendBounds ==
    [][(call'.op \in {"eeprom_read", "eeprom_write",
                      "file_eeprom_read", "file_eeprom_write"}) =>
          LET count == call'.n
              offset == call'.offset
              isRead == call'.op \in {"eeprom_read", "file_eeprom_read"}
          IN
          IF offset + count <= Len(eeprom)
          THEN /\ ret' = count
               /\ isRead => out' = Bytes(eeprom, count, offset) /\ eeprom' = eeprom
               /\ ~isRead =>
                      /\ Len(eeprom') = Len(eeprom)
                      /\ \A i \in 1..Len(eeprom) :
                             eeprom'[i] = IF i > offset /\ i <= offset + count
                                          THEN call'.data[i - offset] ELSE eeprom[i]
          ELSE /\ ret' < 0
               /\ out' = <<>>
               /\ eeprom' = eeprom]_vars


\* the bytes a found file takes: offset, dataSize and data
FoundFile(img, filename) ==
    LET f == EEPROM_FindFile(img, filename) IN
    [address |-> f.address, dataSize |-> f.header.dataSize,
     data |-> DataAt(img, f.address)]

\* C36: a successful add(n, d) leaves every file m # n that was found
\* before the add still found, at the same offset and with the same data.
C36_AddPreservesOthers ==
    [][(call'.op = "add" /\ ret' > 0) =>
          \A m \in Names \ {call'.name} :
              Stored(eeprom, m) =>
                  /\ Stored(eeprom', m)
                  /\ FoundFile(eeprom', m) = FoundFile(eeprom, m)]_vars


\* a name no caller has stored
MissingName == <<100>>

\* C37: the offsets the find walk visits are strictly increasing: every
\* non-zero nextFileAddress the walk follows is larger than the offset of
\* its record, and so find ends for every name, stored or not.
C37_WalksTerminate ==
    HeaderValid(eeprom) =>
        /\ \A i \in DOMAIN Walk(eeprom) :
               LET next == HeaderAt(eeprom, Walk(eeprom)[i]).nextFileAddress
               IN  next # 0 => next > Walk(eeprom)[i]
        /\ \A filename \in Names \cup {MissingName} :
               EEPROM_FindFile(eeprom, filename).halts


\* the name of the record at an offset, as a string
NameAt(img, address) == CStr(HeaderAt(img, address).name, FILE_NAME_LENGTH, 1)

\* C38: no two records the list walk reaches carry the same name.
C38_NamesUnique ==
    HeaderValid(eeprom) =>
        \A i, j \in DOMAIN Walk(eeprom) :
            i # j => NameAt(eeprom, Walk(eeprom)[i]) # NameAt(eeprom, Walk(eeprom)[j])


\* the first bytes of the image are not the magic, or the version byte
\* after them is none of 1, 2, 3
BadHeader(img) ==
    \/ SubSeq(img, 1, MAGIC_LENGTH) # MAGIC
    \/ img[MAGIC_LENGTH + 1] \notin 1..3

\* C39: on an image whose header has a bad magic or an unknown version,
\* add, write, delete and read fail, list returns 0 and hands back no
\* entry, and none of them changes a byte of the image.
C39_NoHeaderNoMutation ==
    [][(BadHeader(eeprom) /\ call'.op \in {"add", "write", "delete", "read", "list"}) =>
          /\ eeprom' = eeprom
          /\ call'.op = "list" => (ret' = 0 /\ out' = <<>>)
          /\ call'.op # "list" => ret' < 0]_vars

\* a list has returned 0 on an image that holds the record of the file "a"
\* at offset 256 behind a header whose magic is damaged
C39_Witness ==
    /\ call.op = "list"
    /\ ret = 0
    /\ BadHeader(eeprom)
    /\ eeprom[1] = 0
    /\ NameAt(eeprom, jeefs_header_size(2)) = <<97>>


\* the image `after` differs from `before` at most at the offsets
\* first .. last - 1
ChangedOnly(before, after, first, last) ==
    /\ Len(after) = Len(before)
    /\ after = [i \in 1..Len(before) |->
                   IF i > first /\ i <= last THEN after[i] ELSE before[i]]

\* C40: list, read, get_header and the header consistency check change no
\* byte of the image; update_crc changes only the 4 CRC bytes at
\* header_size(v) - 4 of the header it detects; init changes only the first
\* header_size(v) bytes of the buffer.
C40_Footprint ==
    [][/\ call'.op \in {"list", "read", "get_header", "check"} => eeprom' = eeprom
       /\ call'.op = "update_crc" =>
              LET v == jeefs_header_detect_version(eeprom, call'.n) IN
              IF v < 0 THEN eeprom' = eeprom
              ELSE ChangedOnly(eeprom, eeprom', jeefs_header_size(v) - 4,
                               jeefs_header_size(v))
       /\ call'.op = "init" =>
              LET v == call'.data[1] IN
              IF jeefs_header_size(v) < 0 THEN eeprom' = eeprom
              ELSE ChangedOnly(eeprom, eeprom', 0, jeefs_header_size(v))]_vars

\* an init of a 256-byte header has succeeded on a buffer of 512 bytes or
\* more whose bytes were 0xFF: the header is there and the byte after it is
\* still 0xFF
C40_Witness ==
    /\ call.op = "init"
    /\ ret = 0
    /\ call.n > jeefs_header_size(call.data[1])
    /\ SubSeq(eeprom, 1, MAGIC_LENGTH) = MAGIC
    /\ eeprom[jeefs_header_size(call.data[1]) + 1] = 255

====
